---- MODULE Spec2Model ----
(***************************************************************************)
(* IOTADeFiTool (backend/agent/tools/iota_defi_tool.py): five query        *)
(* operations over the mock market data and user portfolios built by the   *)
(* constructor.                                                            *)
(*                                                                         *)
(* Numbers.  The Python floats are decimals with few digits; they are kept *)
(* exactly as scaled integers:                                             *)
(*   price_usd                      in 1/10000 USD   (0.1452   -> 1452)    *)
(*   change_24h, apy, apr           in hundredths    (4.52     -> 452)     *)
(*   utilization_rate               in tenths        (68.3     -> 683)     *)
(*   risk metrics (0-1 scale)       in hundredths    (0.42     -> 42)      *)
(*   amounts, collateral ratios     as written                             *)
(*   metrics rounded to 2 decimals  in hundredths (cents)                  *)
(* market_cap_usd is never computed with and exceeds 32 bits: it is kept   *)
(* as its decimal digits.                                                  *)
(***************************************************************************)
EXTENDS Integers, Sequences, FiniteSets, TLC

VARIABLES
    market_data,      \* self.market_data
    user_portfolios,  \* self.user_portfolios
    call,             \* the last call made: operation and arguments
    result            \* the ToolResult that call returned

vars == <<market_data, user_portfolios, call, result>>

\* Longest list of symbols a caller passes as `assets`.
MaxLen == 2

\* Symbols callers ask for: one in both pools, one in pool_2 only, one unknown.
Symbols == {"IOTA", "BTC", "ZZZ"}

(***************************************************************************)
(* Python values of the `assets` argument.  A str is kept as its sequence  *)
(* of lexical tokens, which is what json.loads reads.                      *)
(***************************************************************************)
Tok(k, s, n) == [k |-> k, s |-> s, n |-> n]

PyNone == [t |-> "none", items |-> <<>>, n |-> 0, text |-> <<>>]

PyList(l) == [t |-> "list", items |-> l, n |-> 0, text |-> <<>>]

PyInt(n) == [t |-> "int", items |-> <<>>, n |-> n, text |-> <<>>]

PyStr(toks) == [t |-> "str", items |-> <<>>, n |-> 0, text |-> toks]

\* Python truthiness: None, [], 0 and "" are falsy.
Truthy(v) ==
    CASE v.t = "none" -> FALSE
      [] v.t = "list" -> Len(v.items) > 0
      [] v.t = "int"  -> v.n # 0
      [] v.t = "str"  -> Len(v.text) > 0

\* Optional[str] arguments (user_id, pool_id): None or a string.
NoneStr == [none |-> TRUE, s |-> ""]

Str(s) == [none |-> FALSE, s |-> s]

TruthyStr(v) == ~v.none /\ v.s # ""

(***************************************************************************)
(* json.loads on the JSON fragment callers send: a scalar (string, number, *)
(* null) or a flat list of strings.  Anything else the model draws is not  *)
(* JSON and raises JSONDecodeError.                                        *)
(***************************************************************************)
IsFlatStringList(text) ==
    /\ Len(text) >= 2
    /\ text[1].k = "["
    /\ text[Len(text)].k = "]"
    /\ LET inner == SubSeq(text, 2, Len(text) - 1)
       IN  \/ inner = <<>>
           \/ /\ Len(inner) % 2 = 1
              /\ \A i \in 1..Len(inner) :
                    IF i % 2 = 1 THEN inner[i].k = "string" ELSE inner[i].k = ","

json_loads(text) ==
    IF Len(text) = 1 /\ text[1].k = "string"
        THEN [ok |-> TRUE, val |-> PyStr(<<Tok("word", text[1].s, 0)>>)]
    ELSE IF Len(text) = 1 /\ text[1].k = "number"
        THEN [ok |-> TRUE, val |-> PyInt(text[1].n)]
    ELSE IF Len(text) = 1 /\ text[1].k = "null"
        THEN [ok |-> TRUE, val |-> PyNone]
    ELSE IF IsFlatStringList(text)
        THEN LET inner == SubSeq(text, 2, Len(text) - 1)
             IN  [ok |-> TRUE,
                  val |-> PyList([i \in 1..((Len(inner) + 1) \div 2) |->
                                     inner[2 * i - 1].s])]
    ELSE [ok |-> FALSE, val |-> PyNone]

(***************************************************************************)
(* ToolResult envelopes (agentpress.tool).  A failure message is kept as   *)
(* its fixed text and the values formatted into it.                        *)
(***************************************************************************)
success_response(data) == [success |-> TRUE, output |-> data]

fail_response(message, args) ==
    [success |-> FALSE, output |-> [message |-> message, args |-> args]]

(***************************************************************************)
(* The constructor's data.                                                 *)
(***************************************************************************)
InitMarketData ==
    [assets |-> <<
        [symbol |-> "IOTA", price_usd |-> 1452, change_24h |-> 234,
         market_cap_usd |-> "403782401"],
        [symbol |-> "BTC", price_usd |-> 632457800, change_24h |-> -123,
         market_cap_usd |-> "1234567890123"],
        [symbol |-> "ETH", price_usd |-> 30714500, change_24h |-> 87,
         market_cap_usd |-> "369123456789"] >>,
     lending_pools |-> <<
        [id |-> "pool_1", name |-> "IOTA Stable Pool", total_deposits |-> 2500000,
         apy |-> 452, utilization_rate |-> 683, collateral_ratio |-> 150,
         assets |-> <<"IOTA", "USDT", "USDC">>],
        [id |-> "pool_2", name |-> "IOTA High Yield", total_deposits |-> 1200000,
         apy |-> 876, utilization_rate |-> 821, collateral_ratio |-> 200,
         assets |-> <<"IOTA", "BTC", "ETH">>] >>,
     risk_metrics |->
        [market_volatility |-> 42, liquidation_risk |-> 31, protocol_health |-> 89]]

InitUserPortfolios ==
    [u \in {"user_123"} |->
        [wallet_balance |-> [a \in {"IOTA", "USDT"} |->
                                IF a = "IOTA" THEN 10000 ELSE 5000],
         lending_positions |-> <<
            [pool_id |-> "pool_1", deposited |-> 4000, asset |-> "IOTA",
             apy |-> 452, deposit_date |-> "2023-10-15"] >>,
         borrowing_positions |-> <<
            [pool_id |-> "pool_2", borrowed |-> 2000, asset |-> "USDT",
             apr |-> 567, borrow_date |-> "2023-11-01",
             collateral |-> [asset |-> "IOTA", amount |-> 6000, ratio |-> 175]] >>]]

(***************************************************************************)
(* Arguments callers pass.                                                 *)
(***************************************************************************)
SymbolLists == UNION {[1..n -> Symbols] : n \in 0..MaxLen}

\* str arguments for `assets`: '[]', '["BTC", "IOTA"]', '5', '0', '"IOTA"',
\* and two that are not JSON: '' and '["IOTA"'.
AssetsTexts ==
    { <<Tok("[", "", 0), Tok("]", "", 0)>>,
      <<Tok("[", "", 0), Tok("string", "BTC", 0), Tok(",", "", 0),
        Tok("string", "IOTA", 0), Tok("]", "", 0)>>,
      <<Tok("number", "", 5)>>,
      <<Tok("number", "", 0)>>,
      <<Tok("string", "IOTA", 0)>>,
      <<>>,
      <<Tok("[", "", 0), Tok("string", "IOTA", 0)>> }

AssetsInputs ==
    {PyNone} \cup {PyList(l) : l \in SymbolLists} \cup {PyStr(x) : x \in AssetsTexts}

(***************************************************************************)
(* Sequence helpers: Python list comprehension over a list, in list order. *)
(***************************************************************************)
RECURSIVE SelectSeqBy(_, _)
SelectSeqBy(s, keep) ==
    IF s = <<>> THEN <<>>
    ELSE (IF Head(s) \in keep THEN <<Head(s)>> ELSE <<>>) \o SelectSeqBy(Tail(s), keep)

Range(s) == {s[i] : i \in DOMAIN s}

(***************************************************************************)
(* get_market_data                                                         *)
(***************************************************************************)
\* asset["symbol"] in assets: list membership; substring test on a str (the
\* symbols drawn are no substrings of one another, so a str contains a symbol
\* iff it is that word); TypeError on an int.
SymbolIn(symbol, assets) ==
    CASE assets.t = "list" -> [raises |-> FALSE, val |-> symbol \in Range(assets.items)]
      [] assets.t = "str"  -> [raises |-> FALSE,
                               val |-> \E i \in DOMAIN assets.text :
                                          assets.text[i] = Tok("word", symbol, 0)]
      [] OTHER             -> [raises |-> TRUE, val |-> FALSE]

\* get_market_data without the `if not filtered_assets` failure
get_market_data_decoded_EmptySuccess(assets) ==
    IF ~Truthy(assets)
        THEN success_response(market_data.assets)
    ELSE IF \E i \in DOMAIN market_data.assets :
                SymbolIn(market_data.assets[i].symbol, assets).raises
        THEN fail_response("Error getting market data",
                           <<"argument of type 'int' is not iterable">>)
    ELSE success_response(
            SelectSeqBy(market_data.assets,
                        {a \in Range(market_data.assets) :
                            SymbolIn(a.symbol, assets).val}))

\* get_market_data without the `except Exception` clause: the TypeError of
\* `in` on an int reaches the caller
get_market_data_decoded_Uncaught(assets) ==
    IF ~Truthy(assets)
        THEN success_response(market_data.assets)
    ELSE IF \E i \in DOMAIN market_data.assets :
                SymbolIn(market_data.assets[i].symbol, assets).raises
        THEN [raised |-> "TypeError", cause |-> "argument of type 'int' is not iterable"]
    ELSE LET filtered_assets ==
                SelectSeqBy(market_data.assets,
                            {a \in Range(market_data.assets) :
                                SymbolIn(a.symbol, assets).val})
         IN  IF filtered_assets = <<>>
                THEN fail_response("No data found for assets", <<assets>>)
                ELSE success_response(filtered_assets)

get_market_data_decoded(assets) ==
    IF ~Truthy(assets)
        THEN success_response(market_data.assets)
    ELSE IF \E i \in DOMAIN market_data.assets :
                SymbolIn(market_data.assets[i].symbol, assets).raises
        THEN fail_response("Error getting market data",
                           <<"argument of type 'int' is not iterable">>)
    ELSE LET filtered_assets ==
                SelectSeqBy(market_data.assets,
                            {a \in Range(market_data.assets) :
                                SymbolIn(a.symbol, assets).val})
         IN  IF filtered_assets = <<>>
                THEN fail_response("No data found for assets", <<assets>>)
                ELSE success_response(filtered_assets)

get_market_data(assets) ==
    IF assets.t = "str"
        THEN LET d == json_loads(assets.text)
             IN  IF ~d.ok
                    THEN fail_response("Invalid JSON format for assets parameter.", <<>>)
                    ELSE get_market_data_decoded(d.val)
        ELSE get_market_data_decoded(assets)

GetMarketData ==
    \E assets \in AssetsInputs :
        /\ call' = [op |-> "get_market_data", assets |-> assets]
        /\ result' = get_market_data(assets)
        /\ UNCHANGED <<market_data, user_portfolios>>

(***************************************************************************)
(* get_lending_pools                                                       *)
(***************************************************************************)
\* min_apy: None, a number (hundredths), or a str that float() rejects.
NoMinApy == [t |-> "none", n |-> 0]

NumMinApy(n) == [t |-> "num", n |-> n]

BadMinApy == [t |-> "str", n |-> 0]

MinApyInputs == {NoMinApy, NumMinApy(0), NumMinApy(452), NumMinApy(500),
                 NumMinApy(900), BadMinApy}

\* the filter with > for >=
ApyAbove(pool, min_apy) == pool.apy > min_apy.n

\* pool["apy"] >= float(min_apy)
ApyAtLeast(pool, min_apy) == pool.apy >= min_apy.n

\* any(asset in pool["assets"] for asset in assets): a str is iterated by
\* character, and no character is a pool asset.
AnyAssetIn(pool, assets) ==
    CASE assets.t = "list" -> \E i \in DOMAIN assets.items :
                                 assets.items[i] \in Range(pool.assets)
      [] OTHER             -> FALSE

get_lending_pools_decoded(min_apy, assets) ==
    LET all == market_data.lending_pools
        \* float(min_apy) is evaluated once per pool
        float_raises == min_apy.t = "str" /\ all # <<>>
        by_apy == IF min_apy.t # "none" /\ ~float_raises
                     THEN SelectSeqBy(all, {p \in Range(all) : ApyAtLeast(p, min_apy)})
                     ELSE all
        \* `for asset in assets` is evaluated once per remaining pool
        iter_raises == Truthy(assets) /\ assets.t = "int" /\ by_apy # <<>>
        pools == IF Truthy(assets) /\ ~iter_raises
                    THEN SelectSeqBy(by_apy, {p \in Range(by_apy) : AnyAssetIn(p, assets)})
                    ELSE by_apy
        filters == (IF min_apy.t # "none"
                       THEN <<[name |-> "min_apy", value |-> min_apy]>> ELSE <<>>)
                   \o (IF Truthy(assets)
                       THEN <<[name |-> "assets", value |-> assets]>> ELSE <<>>)
    IN  IF float_raises
            THEN fail_response("Error getting lending pools",
                               <<"could not convert string to float">>)
        ELSE IF iter_raises
            THEN fail_response("Error getting lending pools",
                               <<"'int' object is not iterable">>)
        ELSE IF pools = <<>>
            THEN fail_response("No lending pools found with filters", filters)
        ELSE success_response(pools)

get_lending_pools(min_apy, assets) ==
    IF assets.t = "str"
        THEN LET d == json_loads(assets.text)
             IN  IF ~d.ok
                    THEN fail_response("Invalid JSON format for assets parameter.", <<>>)
                    ELSE get_lending_pools_decoded(min_apy, d.val)
        ELSE get_lending_pools_decoded(min_apy, assets)

GetLendingPools ==
    \E min_apy \in MinApyInputs, assets \in AssetsInputs :
        /\ call' = [op |-> "get_lending_pools", min_apy |-> min_apy, assets |-> assets]
        /\ result' = get_lending_pools(min_apy, assets)
        /\ UNCHANGED <<market_data, user_portfolios>>

(***************************************************************************)
(* get_risk_assessment                                                     *)
(***************************************************************************)
PoolIdInputs == {NoneStr, Str(""), Str("pool_1"), Str("pool_2"), Str("pool_9")}

\* the buckets with <= for <
RiskBucketInclusive(x) == IF x <= 30 THEN "low" ELSE IF x <= 70 THEN "moderate" ELSE "high"

\* "low" if x < 0.3 else "moderate" if x < 0.7 else "high"
RiskBucket(x) == IF x < 30 THEN "low" ELSE IF x < 70 THEN "moderate" ELSE "high"

\* "excellent" if x > 0.8 else "good" if x > 0.5 else "concerning"
HealthBucket(x) == IF x > 80 THEN "excellent" ELSE IF x > 50 THEN "good" ELSE "concerning"

\* "low" if utilization < 60 else "moderate" if utilization < 80 else "high"
UtilizationBucket(u) == IF u < 600 THEN "low" ELSE IF u < 800 THEN "moderate" ELSE "high"

\* "high" if collateral > 180 else "moderate" if collateral > 140 else "low"
CollateralBucket(c) == IF c > 180 THEN "high" ELSE IF c > 140 THEN "moderate" ELSE "low"

\* the condition with >= for >
HighUtilizationInclusive(u) == u >= 800

\* utilization > 80, the condition of both pool recommendations
HighUtilization(u) == u > 800

MarketRecommendations ==
    << "Maintain appropriate collateralization ratios above 150%",
       "Diversify lending positions across multiple pools",
       "Consider hedging strategies in high volatility periods" >>

PoolRecommendations(u) ==
    << IF HighUtilization(u)
          THEN "Consider depositing more assets to earn higher yields"
          ELSE "This pool has capacity for more deposits",
       IF HighUtilization(u)
          THEN "Maintain higher collateral ratios due to high utilization"
          ELSE "Standard collateral ratios are likely sufficient" >>

\* next((p for p in pools if p["id"] == pool_id), None): index of the first
\* match, 0 for None
FindPool(id) ==
    LET pools == market_data.lending_pools
        hits == {i \in DOMAIN pools : pools[i].id = id}
    IN  IF hits = {} THEN 0 ELSE CHOOSE i \in hits : \A j \in hits : i <= j

get_risk_assessment(pool_id) ==
    IF ~TruthyStr(pool_id)
        THEN LET risk_metrics == market_data.risk_metrics
             IN  success_response(
                    [metrics |-> risk_metrics,
                     assessment |->
                        [market_risk |-> RiskBucket(risk_metrics.market_volatility),
                         liquidation_risk |-> RiskBucket(risk_metrics.liquidation_risk),
                         protocol_health |-> HealthBucket(risk_metrics.protocol_health)],
                     recommendations |-> MarketRecommendations])
    ELSE IF FindPool(pool_id.s) = 0
        THEN fail_response("Lending pool with ID not found", <<pool_id.s>>)
    ELSE LET pool == market_data.lending_pools[FindPool(pool_id.s)]
         IN  success_response(
                [pool |-> pool,
                 assessment |->
                    [name |-> pool.name,
                     utilization_risk |-> UtilizationBucket(pool.utilization_rate),
                     collateral_safety |-> CollateralBucket(pool.collateral_ratio)],
                 recommendations |-> PoolRecommendations(pool.utilization_rate)])

GetRiskAssessment ==
    \E pool_id \in PoolIdInputs :
        /\ call' = [op |-> "get_risk_assessment", pool_id |-> pool_id]
        /\ result' = get_risk_assessment(pool_id)
        /\ UNCHANGED <<market_data, user_portfolios>>

(***************************************************************************)
(* get_user_portfolio                                                      *)
(***************************************************************************)
UserIdInputs == {NoneStr, Str(""), Str("user_123"), Str("unknown")}

\* round(x) of the rational num/den, den > 0: to the nearest, ties to even
RoundHalfEven(num, den) ==
    LET q == num \div den
        r == num % den
    IN  IF 2 * r < den THEN q
        ELSE IF 2 * r > den THEN q + 1
        ELSE IF q % 2 = 0 THEN q ELSE q + 1

\* round(x, 2) of x in 1/10000 USD, in cents
Round2(x) == RoundHalfEven(x, 100)

\* the lookup with a default of 1 USD for a symbol without a stored price
AssetPriceDefaultOne(symbol) ==
    LET assets == market_data.assets
        hits == {i \in DOMAIN assets : assets[i].symbol = symbol}
    IN  IF hits = {} THEN 10000
        ELSE assets[CHOOSE i \in hits : \A j \in hits : j <= i].price_usd

\* asset_prices.get(symbol, 0), asset_prices built from the assets in order
\* (a later entry for the same symbol overwrites an earlier one)
AssetPrice(symbol) ==
    LET assets == market_data.assets
        hits == {i \in DOMAIN assets : assets[i].symbol = symbol}
    IN  IF hits = {} THEN 0
        ELSE assets[CHOOSE i \in hits : \A j \in hits : j <= i].price_usd

RECURSIVE WalletValue(_, _)
WalletValue(balance, keys) ==
    IF keys = {} THEN 0
    ELSE LET a == CHOOSE k \in keys : TRUE
         IN  balance[a] * AssetPrice(a) + WalletValue(balance, keys \ {a})

RECURSIVE LendingValue(_)
LendingValue(positions) ==
    IF positions = <<>> THEN 0
    ELSE Head(positions).deposited * AssetPrice(Head(positions).asset)
         + LendingValue(Tail(positions))

RECURSIVE BorrowingValue(_)
BorrowingValue(positions) ==
    IF positions = <<>> THEN 0
    ELSE Head(positions).borrowed * AssetPrice(Head(positions).asset)
         + BorrowingValue(Tail(positions))

RECURSIVE CollateralValue(_)
CollateralValue(positions) ==
    IF positions = <<>> THEN 0
    ELSE (IF "collateral" \in DOMAIN Head(positions)
             THEN Head(positions).collateral.amount
                  * AssetPrice(Head(positions).collateral.asset)
             ELSE 0)
         + CollateralValue(Tail(positions))

\* round(collateral_value / borrowing_value if borrowing_value > 0
\*       else float('inf'), 2), in hundredths
HealthFactor(collateral_value, borrowing_value) ==
    IF borrowing_value > 0
        THEN [inf |-> FALSE,
              value |-> RoundHalfEven(100 * collateral_value, borrowing_value)]
        ELSE [inf |-> TRUE, value |-> 0]

PortfolioMetrics(portfolio) ==
    LET wallet_value == WalletValue(portfolio.wallet_balance,
                                    DOMAIN portfolio.wallet_balance)
        lending_value == LendingValue(portfolio.lending_positions)
        borrowing_value == BorrowingValue(portfolio.borrowing_positions)
        collateral_value == CollateralValue(portfolio.borrowing_positions)
    IN  [total_wallet_value_usd |-> Round2(wallet_value),
         total_lending_value_usd |-> Round2(lending_value),
         total_borrowing_value_usd |-> Round2(borrowing_value),
         total_collateral_value_usd |-> Round2(collateral_value),
         net_position_usd |-> Round2(wallet_value + lending_value - borrowing_value),
         health_factor |-> HealthFactor(collateral_value, borrowing_value)]

\* {**portfolio, "metrics": {...}}
WithMetrics(portfolio) ==
    [k \in DOMAIN portfolio \cup {"metrics"} |->
        IF k = "metrics" THEN PortfolioMetrics(portfolio) ELSE portfolio[k]]

\* the handler looking the portfolio up before checking user_id
get_user_portfolio_LookupFirst(user_id) ==
    IF user_id.none \/ user_id.s \notin DOMAIN user_portfolios
        THEN fail_response("No portfolio found for user ID", <<user_id.s>>)
    ELSE IF ~TruthyStr(user_id)
        THEN fail_response("User ID is required", <<>>)
    ELSE success_response(WithMetrics(user_portfolios[user_id.s]))

get_user_portfolio(user_id) ==
    IF ~TruthyStr(user_id)
        THEN fail_response("User ID is required", <<>>)
    ELSE IF \/ user_id.s \notin DOMAIN user_portfolios
            \/ DOMAIN user_portfolios[user_id.s] = {}   \* `not portfolio`: None or {}
        THEN fail_response("No portfolio found for user ID", <<user_id.s>>)
    ELSE success_response(WithMetrics(user_portfolios[user_id.s]))

\* the handler attaching the metrics to the stored portfolio itself
\* (portfolio["metrics"] = ...) instead of to a copy
GetUserPortfolioInPlace ==
    \E user_id \in UserIdInputs :
        /\ call' = [op |-> "get_user_portfolio", user_id |-> user_id]
        /\ result' = get_user_portfolio(user_id)
        /\ user_portfolios' =
              IF result'.success
                 THEN [user_portfolios EXCEPT ![user_id.s] = result'.output]
                 ELSE user_portfolios
        /\ UNCHANGED market_data

GetUserPortfolio ==
    \E user_id \in UserIdInputs :
        /\ call' = [op |-> "get_user_portfolio", user_id |-> user_id]
        /\ result' = get_user_portfolio(user_id)
        /\ UNCHANGED <<market_data, user_portfolios>>

(***************************************************************************)
(* get_ai_investment_recommendations and its generators                    *)
(***************************************************************************)
valid_risk_levels == <<"conservative", "moderate", "aggressive">>

valid_horizons == <<"short", "medium", "long">>

RiskToleranceInputs == Range(valid_risk_levels) \cup {"reckless"}

HorizonInputs == Range(valid_horizons) \cup {"forever"}

\* dict order of an allocation
AllocationKeys == <<"stablecoins", "IOTA", "other_crypto">>

allocations ==
    [r \in Range(valid_risk_levels) |->
        CASE r = "conservative" -> [stablecoins |-> 60, IOTA |-> 30, other_crypto |-> 10]
          [] r = "moderate"     -> [stablecoins |-> 40, IOTA |-> 40, other_crypto |-> 20]
          [] r = "aggressive"   -> [stablecoins |-> 20, IOTA |-> 50, other_crypto |-> 30]]

horizon_adjustments ==
    [h \in Range(valid_horizons) |->
        CASE h = "short"  -> [stablecoins |-> 10, IOTA |-> -5, other_crypto |-> -5]
          [] h = "medium" -> [stablecoins |-> 0, IOTA |-> 0, other_crypto |-> 0]
          [] h = "long"   -> [stablecoins |-> -10, IOTA |-> 5, other_crypto |-> 5]]

\* volatility_adjustments with the whole factor, not half, taken off IOTA and
\* other_crypto
VolatilityAdjustment20Whole(asset, market_volatility) ==
    IF asset = "stablecoins" THEN 2 * market_volatility ELSE -2 * market_volatility

\* volatility_adjustments in twentieths of a percent: volatility_factor is
\* market_volatility * 10, stablecoins get it, the others minus half of it
VolatilityAdjustment20(asset, market_volatility) ==
    IF asset = "stablecoins" THEN 2 * market_volatility ELSE -market_volatility

Clamp(x) == IF x < 0 THEN 0 ELSE IF x > 100 THEN 100 ELSE x

\* max(final_allocation, key=final_allocation.get): the first largest in dict order
LargestAsset(alloc) ==
    AllocationKeys[CHOOSE i \in 1..3 :
        /\ \A j \in 1..3 : alloc[AllocationKeys[j]] <= alloc[AllocationKeys[i]]
        /\ \A j \in 1..(i - 1) : alloc[AllocationKeys[j]] < alloc[AllocationKeys[i]]]

AllocationTotal(alloc) == alloc.stablecoins + alloc.IOTA + alloc.other_crypto

\* the `if total != 100` block without the `if diff != 0` correction
NormalizeAllocationNoResidual(alloc) ==
    LET total == AllocationTotal(alloc)
    IN  IF total = 100 THEN alloc
        ELSE [a \in Range(AllocationKeys) |-> RoundHalfEven(alloc[a] * 100, total)]

\* the `if total != 100` block
NormalizeAllocation(alloc) ==
    LET total == AllocationTotal(alloc)
        scaled == [a \in Range(AllocationKeys) |-> RoundHalfEven(alloc[a] * 100, total)]
        diff == 100 - AllocationTotal(scaled)
    IN  IF total = 100 THEN alloc
        ELSE IF diff = 0 THEN scaled
        ELSE [scaled EXCEPT ![LargestAsset(scaled)] = @ + diff]

_generate_asset_allocation(risk_tolerance, investment_horizon, market_volatility) ==
    LET base_allocation == allocations[risk_tolerance]
        horizon_adjustment == horizon_adjustments[investment_horizon]
        final_allocation ==
            [a \in Range(AllocationKeys) |->
                Clamp(RoundHalfEven(
                    20 * (base_allocation[a] + horizon_adjustment[a])
                    + VolatilityAdjustment20(a, market_volatility), 20))]
    IN  NormalizeAllocation(final_allocation)

Strategy(name, description) == [name |-> name, description |-> description]

\* _generate_strategies with Volatility Hedging from 0.6 on
_generate_strategies_HedgingFrom60(risk_tolerance, investment_horizon, market_volatility) ==
    << Strategy("Diversification",
                "Spread investments across multiple assets to reduce risk") >>
    \o (CASE risk_tolerance = "conservative" ->
                << Strategy("Stable Yield Farming",
                     "Focus on stable assets and lower-risk lending pools with consistent returns") >>
                \o (IF investment_horizon = "medium" \/ investment_horizon = "long"
                       THEN << Strategy("Dollar-Cost Averaging",
                                 "Gradually invest in IOTA over time to reduce impact of volatility") >>
                       ELSE <<>>)
          [] risk_tolerance = "moderate" ->
                << Strategy("Balanced Approach",
                     "Combine stable yields with some higher-risk positions for growth potential"),
                   Strategy("Strategic Rebalancing",
                     "Periodically adjust portfolio allocations to maintain desired risk level") >>
          [] risk_tolerance = "aggressive" ->
                << Strategy("Growth Focus",
                     "Target higher yields through more volatile assets and lending opportunities") >>
                \o (IF market_volatility < 70
                       THEN << Strategy("Strategic Leverage",
                                 "Use carefully managed leverage positions for amplified returns") >>
                       ELSE <<>>)
          [] OTHER -> <<>>)
    \o (IF market_volatility >= 60
           THEN << Strategy("Volatility Hedging",
                     "Increase stablecoin allocation and use hedging strategies during high volatility") >>
           ELSE <<>>)

_generate_strategies(risk_tolerance, investment_horizon, market_volatility) ==
    << Strategy("Diversification",
                "Spread investments across multiple assets to reduce risk") >>
    \o (CASE risk_tolerance = "conservative" ->
                << Strategy("Stable Yield Farming",
                     "Focus on stable assets and lower-risk lending pools with consistent returns") >>
                \o (IF investment_horizon = "medium" \/ investment_horizon = "long"
                       THEN << Strategy("Dollar-Cost Averaging",
                                 "Gradually invest in IOTA over time to reduce impact of volatility") >>
                       ELSE <<>>)
          [] risk_tolerance = "moderate" ->
                << Strategy("Balanced Approach",
                     "Combine stable yields with some higher-risk positions for growth potential"),
                   Strategy("Strategic Rebalancing",
                     "Periodically adjust portfolio allocations to maintain desired risk level") >>
          [] risk_tolerance = "aggressive" ->
                << Strategy("Growth Focus",
                     "Target higher yields through more volatile assets and lending opportunities") >>
                \o (IF market_volatility < 70
                       THEN << Strategy("Strategic Leverage",
                                 "Use carefully managed leverage positions for amplified returns") >>
                       ELSE <<>>)
          [] OTHER -> <<>>)
    \o (IF market_volatility > 60
           THEN << Strategy("Volatility Hedging",
                     "Increase stablecoin allocation and use hedging strategies during high volatility") >>
           ELSE <<>>)

\* pool_risk_levels, in dict order
pool_risk_levels ==
    << [pool_id |-> "pool_1", risk_level |-> "conservative"],
       [pool_id |-> "pool_2", risk_level |-> "aggressive"] >>

PoolSuits(risk_tolerance, risk_level) ==
    \/ risk_tolerance = "conservative" /\ risk_level = "conservative"
    \/ risk_tolerance = "moderate"
    \/ risk_tolerance = "aggressive"

\* the lending opportunity of one pool; the formatted texts are kept as their parts
LendingOpportunity(pool) ==
    [type |-> "lending",
     name |-> <<pool.name, " Deposit">>,
     description |-> <<"Deposit assets in ", pool.name, " for ", pool.apy, "% APY">>,
     expected_return |-> <<pool.apy, "%">>,
     risk_level |-> IF pool.id = "pool_1" THEN "Low" ELSE "Medium-High"]

StakingOpportunity ==
    [type |-> "staking",
     name |-> <<"IOTA Staking">>,
     description |-> <<"Stake IOTA tokens to earn rewards and support network security">>,
     expected_return |-> <<"5-7%">>,
     risk_level |-> "Medium"]

FarmingOpportunity ==
    [type |-> "yield_farming",
     name |-> <<"IOTA-BTC LP Farming">>,
     description |-> <<"Provide liquidity to IOTA-BTC pair for trading fees and rewards">>,
     expected_return |-> <<"12-15%">>,
     risk_level |-> "High"]

\* next(p for p in lending_pools if p["id"] == pool_id) raises StopIteration
\* when a suitable pool id is not stored
OpportunitiesRaise(risk_tolerance) ==
    \E i \in DOMAIN pool_risk_levels :
        /\ PoolSuits(risk_tolerance, pool_risk_levels[i].risk_level)
        /\ FindPool(pool_risk_levels[i].pool_id) = 0

RECURSIVE SuitablePools(_, _)
SuitablePools(levels, risk_tolerance) ==
    IF levels = <<>> THEN <<>>
    ELSE (IF PoolSuits(risk_tolerance, Head(levels).risk_level)
             THEN <<market_data.lending_pools[FindPool(Head(levels).pool_id)]>>
             ELSE <<>>)
         \o SuitablePools(Tail(levels), risk_tolerance)

\* _generate_opportunities without the horizon test of the farming opportunity
_generate_opportunities_FarmingAnyHorizon(risk_tolerance, investment_horizon) ==
    LET suitable_pools == SuitablePools(pool_risk_levels, risk_tolerance)
    IN  [i \in DOMAIN suitable_pools |-> LendingOpportunity(suitable_pools[i])]
        \o (IF risk_tolerance # "conservative" THEN <<StakingOpportunity>> ELSE <<>>)
        \o (IF risk_tolerance = "aggressive"
               THEN <<FarmingOpportunity>> ELSE <<>>)

_generate_opportunities(risk_tolerance, investment_horizon) ==
    LET suitable_pools == SuitablePools(pool_risk_levels, risk_tolerance)
    IN  [i \in DOMAIN suitable_pools |-> LendingOpportunity(suitable_pools[i])]
        \o (IF risk_tolerance # "conservative" THEN <<StakingOpportunity>> ELSE <<>>)
        \o (IF risk_tolerance = "aggressive" /\ investment_horizon # "short"
               THEN <<FarmingOpportunity>> ELSE <<>>)

\* _generate_rebalancing_advice with the IOTA test met at 5000
_generate_rebalancing_advice_From5000(portfolio, risk_tolerance) ==
    [summary |->
        "Your portfolio may benefit from rebalancing to better align with your risk profile.",
     actions |->
        (IF /\ "IOTA" \in DOMAIN portfolio.wallet_balance
            /\ portfolio.wallet_balance["IOTA"] >= 5000
            /\ risk_tolerance = "conservative"
            THEN << [action |-> "Reduce IOTA exposure",
                     description |-> "Consider converting 20% of your IOTA holdings to stablecoins to reduce volatility risk",
                     reasoning |-> "Your current IOTA allocation exceeds the recommended amount for your risk profile"] >>
            ELSE <<>>)
        \o (IF Len(portfolio.lending_positions) < 2
            THEN << [action |-> "Diversify lending positions",
                     description |-> "Spread your deposits across multiple lending pools to reduce platform-specific risk",
                     reasoning |-> "Diversification can help protect against pool-specific issues or smart contract vulnerabilities"] >>
            ELSE <<>>)]

_generate_rebalancing_advice(portfolio, risk_tolerance) ==
    [summary |->
        "Your portfolio may benefit from rebalancing to better align with your risk profile.",
     actions |->
        (IF /\ "IOTA" \in DOMAIN portfolio.wallet_balance
            /\ portfolio.wallet_balance["IOTA"] > 5000
            /\ risk_tolerance = "conservative"
            THEN << [action |-> "Reduce IOTA exposure",
                     description |-> "Consider converting 20% of your IOTA holdings to stablecoins to reduce volatility risk",
                     reasoning |-> "Your current IOTA allocation exceeds the recommended amount for your risk profile"] >>
            ELSE <<>>)
        \o (IF Len(portfolio.lending_positions) < 2
            THEN << [action |-> "Diversify lending positions",
                     description |-> "Spread your deposits across multiple lending pools to reduce platform-specific risk",
                     reasoning |-> "Diversification can help protect against pool-specific issues or smart contract vulnerabilities"] >>
            ELSE <<>>)]

RECURSIVE CollateralRecommendations(_)
CollateralRecommendations(positions) ==
    IF positions = <<>> THEN <<>>
    ELSE (IF /\ "collateral" \in DOMAIN Head(positions)
             /\ Head(positions).collateral.ratio < 180
             THEN << [priority |-> "High",
                      action |-> "Increase collateral",
                      description |-> <<"Add more collateral to your ",
                                        Head(positions).asset,
                                        " borrowing position to reduce liquidation risk">>,
                      reasoning |-> "Current market volatility increases the risk of liquidation for positions with lower collateral ratios"] >>
             ELSE <<>>)
         \o CollateralRecommendations(Tail(positions))

\* _generate_risk_management_advice with the stop-loss entry from 0.4 on
_generate_risk_management_advice_StopLossFrom40(portfolio, market_volatility) ==
    [current_health |-> IF market_volatility < 50 THEN "Good" ELSE "Requires Attention",
     recommendations |->
        CollateralRecommendations(portfolio.borrowing_positions)
        \o (IF market_volatility >= 40
               THEN << [priority |-> "Medium",
                        action |-> "Set up stop-loss strategies",
                        description |-> <<"Configure automated protection for your more volatile assets">>,
                        reasoning |-> "Current market conditions suggest increased volatility may continue"] >>
               ELSE <<>>)
        \o << [priority |-> "Low",
               action |-> "Review lending pool utilization",
               description |-> <<"Monitor the utilization rates of pools where you have deposits">>,
               reasoning |-> "High utilization rates may indicate increased risk of liquidity issues"] >>]

_generate_risk_management_advice(portfolio, market_volatility) ==
    [current_health |-> IF market_volatility < 50 THEN "Good" ELSE "Requires Attention",
     recommendations |->
        CollateralRecommendations(portfolio.borrowing_positions)
        \o (IF market_volatility > 40
               THEN << [priority |-> "Medium",
                        action |-> "Set up stop-loss strategies",
                        description |-> <<"Configure automated protection for your more volatile assets">>,
                        reasoning |-> "Current market conditions suggest increased volatility may continue"] >>
               ELSE <<>>)
        \o << [priority |-> "Low",
               action |-> "Review lending pool utilization",
               description |-> <<"Monitor the utilization rates of pools where you have deposits">>,
               reasoning |-> "High utilization rates may indicate increased risk of liquidity issues"] >>]

\* self.user_portfolios.get(user_id) when user_id is truthy, else None; a
\* loaded portfolio counts only if it is truthy
PortfolioLoaded(user_id) ==
    /\ TruthyStr(user_id)
    /\ user_id.s \in DOMAIN user_portfolios
    /\ DOMAIN user_portfolios[user_id.s] # {}

\* the handler after validation, refusing a user_id without a stored portfolio
RecommendKnownOnly(risk_tolerance, investment_horizon, user_id) ==
    IF TruthyStr(user_id) /\ user_id.s \notin DOMAIN user_portfolios
        THEN fail_response("No portfolio found for user ID", <<user_id.s>>)
    ELSE LET market_volatility == market_data.risk_metrics.market_volatility
             recommendations ==
                [asset_allocation |->
                    _generate_asset_allocation(risk_tolerance, investment_horizon,
                                               market_volatility),
                 strategies |->
                    _generate_strategies(risk_tolerance, investment_horizon,
                                         market_volatility),
                 specific_opportunities |->
                    _generate_opportunities(risk_tolerance, investment_horizon)]
         IN  IF PortfolioLoaded(user_id)
                THEN success_response(
                        [k \in DOMAIN recommendations \cup {"portfolio_specific"} |->
                            IF k = "portfolio_specific"
                               THEN [rebalancing |->
                                        _generate_rebalancing_advice(
                                            user_portfolios[user_id.s], risk_tolerance),
                                     risk_management |->
                                        _generate_risk_management_advice(
                                            user_portfolios[user_id.s], market_volatility)]
                               ELSE recommendations[k]])
                ELSE success_response(recommendations)

\* the handler after validation (the user portfolio lookup and what follows)
Recommend(risk_tolerance, investment_horizon, user_id) ==
    IF OpportunitiesRaise(risk_tolerance)
        THEN fail_response("Error generating investment recommendations", <<"">>)
    ELSE LET market_volatility == market_data.risk_metrics.market_volatility
             recommendations ==
                [asset_allocation |->
                    _generate_asset_allocation(risk_tolerance, investment_horizon,
                                               market_volatility),
                 strategies |->
                    _generate_strategies(risk_tolerance, investment_horizon,
                                         market_volatility),
                 specific_opportunities |->
                    _generate_opportunities(risk_tolerance, investment_horizon)]
         IN  IF PortfolioLoaded(user_id)
                THEN success_response(
                        [k \in DOMAIN recommendations \cup {"portfolio_specific"} |->
                            IF k = "portfolio_specific"
                               THEN [rebalancing |->
                                        _generate_rebalancing_advice(
                                            user_portfolios[user_id.s], risk_tolerance),
                                     risk_management |->
                                        _generate_risk_management_advice(
                                            user_portfolios[user_id.s], market_volatility)]
                               ELSE recommendations[k]])
                ELSE success_response(recommendations)

\* the handler validating investment_horizon before risk_tolerance
get_ai_investment_recommendations_HorizonFirst(risk_tolerance, investment_horizon, user_id) ==
    IF investment_horizon \notin Range(valid_horizons)
        THEN fail_response("Invalid investment_horizon. Must be one of", valid_horizons)
    ELSE IF risk_tolerance \notin Range(valid_risk_levels)
        THEN fail_response("Invalid risk_tolerance. Must be one of", valid_risk_levels)
    ELSE Recommend(risk_tolerance, investment_horizon, user_id)

get_ai_investment_recommendations(risk_tolerance, investment_horizon, user_id) ==
    IF risk_tolerance \notin Range(valid_risk_levels)
        THEN fail_response("Invalid risk_tolerance. Must be one of", valid_risk_levels)
    ELSE IF investment_horizon \notin Range(valid_horizons)
        THEN fail_response("Invalid investment_horizon. Must be one of", valid_horizons)
    ELSE Recommend(risk_tolerance, investment_horizon, user_id)

GetAiInvestmentRecommendations ==
    \E risk_tolerance \in RiskToleranceInputs, investment_horizon \in HorizonInputs,
       user_id \in UserIdInputs :
        /\ call' = [op |-> "get_ai_investment_recommendations",
                    risk_tolerance |-> risk_tolerance,
                    investment_horizon |-> investment_horizon,
                    user_id |-> user_id]
        /\ result' = get_ai_investment_recommendations(risk_tolerance,
                                                       investment_horizon, user_id)
        /\ UNCHANGED <<market_data, user_portfolios>>

Init ==
    /\ market_data = InitMarketData
    /\ user_portfolios = InitUserPortfolios
    /\ call = [op |-> "init"]
    /\ result = success_response(<<>>)

Next ==
    \/ GetMarketData
    \/ GetLendingPools
    \/ GetRiskAssessment
    \/ GetUserPortfolio
    \/ GetAiInvestmentRecommendations

Spec == Init /\ [][Next]_vars
(***************************************************************************)
(* The handlers are functions of the held data.  SpecGen starts them from  *)
(* data of the constructor's shape with other values, one part varied at a *)
(* time, so that every branch of the classifications and sums is taken.    *)
(***************************************************************************)
\* values on both sides of every threshold of the 0-1 metrics
MetricGrid == {0, 29, 30, 50, 51, 69, 70, 80, 81, 100}

GenRiskMetrics ==
    LET stored == InitMarketData.risk_metrics
    IN  {[stored EXCEPT !.market_volatility = x] : x \in MetricGrid}
        \cup {[stored EXCEPT !.liquidation_risk = x] : x \in MetricGrid}
        \cup {[stored EXCEPT !.protocol_health = x] : x \in MetricGrid}

\* utilization rates and collateral ratios on both sides of every threshold
UtilizationGrid == {0, 599, 600, 799, 800, 801, 1000}

CollateralGrid == {100, 140, 141, 180, 181}

GenLendingPools ==
    LET stored == InitMarketData.lending_pools
    IN  {[stored EXCEPT ![1].utilization_rate = u] : u \in UtilizationGrid}
        \cup {[stored EXCEPT ![2].collateral_ratio = c] : c \in CollateralGrid}

\* the stored assets, and the same with a price for USDT (1.0037 USD)
GenAssets ==
    {InitMarketData.assets,
     InitMarketData.assets \o
        <<[symbol |-> "USDT", price_usd |-> 10037, change_24h |-> 1,
           market_cap_usd |-> "83000000000"]>>}

GenWallets ==
    {[a \in {"IOTA", "USDT"} |-> IF a = "IOTA" THEN 10000 ELSE 5000],
     [a \in {"USDT", "ZZZ"} |-> IF a = "USDT" THEN 33 ELSE 7]}

GenLendingPositions ==
    LET stored == InitUserPortfolios["user_123"].lending_positions
    IN  {<<>>, stored,
         stored \o <<[pool_id |-> "pool_2", deposited |-> 17, asset |-> "USDT",
                      apy |-> 876, deposit_date |-> "2024-01-01"]>>}

GenBorrowingPositions ==
    LET stored == InitUserPortfolios["user_123"].borrowing_positions
        bare == [pool_id |-> "pool_1", borrowed |-> 301, asset |-> "IOTA",
                 apr |-> 567, borrow_date |-> "2024-01-01"]
        safe == [pool_id |-> "pool_1", borrowed |-> 500, asset |-> "IOTA",
                 apr |-> 567, borrow_date |-> "2024-01-01",
                 collateral |-> [asset |-> "USDT", amount |-> 13, ratio |-> 180]]
    IN  {<<>>, stored, <<bare>>, <<safe, bare>>, stored \o <<safe>>}

GenPortfolios ==
    LET stored == InitUserPortfolios["user_123"]
    IN  {[stored EXCEPT !.wallet_balance = w] : w \in GenWallets}
        \cup {[stored EXCEPT !.lending_positions = l] : l \in GenLendingPositions}
        \cup {[stored EXCEPT !.borrowing_positions = b] : b \in GenBorrowingPositions}

InitGen ==
    /\ \/ /\ market_data \in {[InitMarketData EXCEPT !.risk_metrics = r] :
                                r \in GenRiskMetrics}
          /\ user_portfolios = InitUserPortfolios
       \/ /\ market_data \in {[InitMarketData EXCEPT !.lending_pools = p] :
                                p \in GenLendingPools}
          /\ user_portfolios = InitUserPortfolios
       \/ /\ market_data \in {[InitMarketData EXCEPT !.assets = a] : a \in GenAssets}
          /\ user_portfolios \in {[u \in {"user_123"} |-> p] : p \in GenPortfolios}
    /\ call = [op |-> "init"]
    /\ result = success_response(<<>>)

SpecGen == InitGen /\ [][Next]_vars

(***************************************************************************)
(* The recommendation generators are functions of risk_tolerance,          *)
(* investment_horizon, market_volatility and the loaded portfolio.         *)
(* SpecRec calls get_ai_investment_recommendations on every                *)
(* market_volatility of the 0-1 scale (in hundredths) and on portfolios    *)
(* on both sides of the thresholds of the advice.                          *)
(***************************************************************************)
\* volatilities on both sides of the thresholds of the risk-management advice
VolatilityGrid == {0, 39, 40, 41, 49, 50, 51, 100}

\* wallets without IOTA and with IOTA at, just above and well above 5000
RecWallets ==
    {[a \in {"USDT"} |-> 5000],
     [a \in {"IOTA", "USDT"} |-> IF a = "IOTA" THEN 5000 ELSE 1],
     [a \in {"IOTA", "USDT"} |-> IF a = "IOTA" THEN 5001 ELSE 1],
     [a \in {"IOTA", "USDT"} |-> IF a = "IOTA" THEN 10000 ELSE 5000]}

\* borrowing positions with collateral ratios below, at and above 180, in
\* both orders, and without collateral
RecBorrowingPositions ==
    LET Position(asset, ratio) ==
            [pool_id |-> "pool_2", borrowed |-> 100, asset |-> asset, apr |-> 567,
             borrow_date |-> "2024-01-01",
             collateral |-> [asset |-> "IOTA", amount |-> 1000, ratio |-> ratio]]
        bare == [pool_id |-> "pool_1", borrowed |-> 301, asset |-> "IOTA",
                 apr |-> 567, borrow_date |-> "2024-01-01"]
    IN  GenBorrowingPositions
        \cup {<<Position("BTC", 179), Position("ETH", 180), Position("USDT", 150)>>,
              <<Position("USDT", 181), bare, Position("BTC", 0)>>}

RecPortfolios ==
    LET stored == InitUserPortfolios["user_123"]
    IN  {[stored EXCEPT !.wallet_balance = w, !.lending_positions = l] :
            w \in RecWallets, l \in GenLendingPositions}
        \cup {[stored EXCEPT !.borrowing_positions = b] : b \in RecBorrowingPositions}

InitRec ==
    /\ \/ /\ market_data \in
                {[InitMarketData EXCEPT !.risk_metrics.market_volatility = v] :
                    v \in 0..100}
          /\ user_portfolios = InitUserPortfolios
       \/ /\ market_data \in
                {[InitMarketData EXCEPT !.risk_metrics.market_volatility = v] :
                    v \in VolatilityGrid}
          /\ user_portfolios \in {[u \in {"user_123"} |-> p] : p \in RecPortfolios}
    /\ call = [op |-> "init"]
    /\ result = success_response(<<>>)

SpecRec == InitRec /\ [][GetAiInvestmentRecommendations]_vars

(***************************************************************************)
(* Properties.                                                             *)
(***************************************************************************)
\* out is s restricted to the elements Keep accepts, in the order of s
IsFilterOf(out, s, Keep(_)) ==
    LET idx == {i \in DOMAIN s : Keep(s[i])}
    IN  /\ Len(out) = Cardinality(idx)
        /\ \A k \in 1..Len(out) :
              out[k] = s[CHOOSE i \in idx : Cardinality({j \in idx : j < i}) = k - 1]

IsListCall(op) == call.op = op /\ call.assets.t \in {"none", "list"}

\* C1: get_market_data(S) for a list S: with S empty or absent, a success
\* with all stored assets in stored order; otherwise a success with exactly
\* the stored assets whose symbol is in S, in stored order, whatever the order
\* or duplicates of S; and the failure 'No data found for assets', never an
\* empty success, when no stored asset has a symbol in S.
C1_MarketDataFilter ==
    IsListCall("get_market_data") =>
        LET S == Range(call.assets.items)
            stored == market_data.assets
        IN  IF S = {}
                THEN result.success /\ result.output = stored
            ELSE IF \A i \in DOMAIN stored : stored[i].symbol \notin S
                THEN /\ ~result.success
                     /\ result.output.message = "No data found for assets"
            ELSE /\ result.success
                 /\ result.output # <<>>
                 /\ IsFilterOf(result.output, stored, LAMBDA a : a.symbol \in S)

\* C1 on the constructor's assets: ["BTC", "IOTA"] gives IOTA then BTC
C1_Witness ==
    /\ call.op = "get_market_data"
    /\ call.assets = PyList(<<"BTC", "IOTA">>)
    /\ result.success
    /\ Len(result.output) = 2
    /\ result.output[1].symbol = "IOTA"
    /\ result.output[2].symbol = "BTC"

\* C2: get_lending_pools(min_apy, assets) succeeds with exactly the stored
\* pools, in stored order, that pass every filter given (apy >= min_apy when
\* min_apy is not None, 0 included; a requested symbol among the pool's assets
\* when assets is non-empty); min_apy=5 alone gives only pool_2 and no filter
\* gives both pools; when no pool passes, the failure lists exactly the
\* filters given and there is no empty success.
C2_LendingPoolFilter ==
    (IsListCall("get_lending_pools") /\ call.min_apy.t # "str") =>
        LET stored == market_data.lending_pools
            S == Range(call.assets.items)
            apy_given == call.min_apy.t = "num"
            assets_given == S # {}
            Passes(pool) ==
                /\ apy_given => pool.apy >= call.min_apy.n
                /\ assets_given => Range(pool.assets) \cap S # {}
            given == (IF apy_given THEN <<"min_apy">> ELSE <<>>)
                     \o (IF assets_given THEN <<"assets">> ELSE <<>>)
        IN  /\ IF \E i \in DOMAIN stored : Passes(stored[i])
                  THEN /\ result.success
                       /\ result.output # <<>>
                       /\ IsFilterOf(result.output, stored, Passes)
                  ELSE /\ ~result.success
                       /\ result.output.message = "No lending pools found with filters"
                       /\ [i \in DOMAIN result.output.args |->
                              result.output.args[i].name] = given
                       /\ \A i \in DOMAIN result.output.args :
                              result.output.args[i].value =
                                 IF result.output.args[i].name = "min_apy"
                                    THEN call.min_apy ELSE call.assets
            /\ (call.min_apy = NumMinApy(500) /\ ~assets_given) =>
                  /\ result.success
                  /\ [i \in DOMAIN result.output |-> result.output[i].id] = <<"pool_2">>
            /\ (~apy_given /\ ~assets_given) =>
                  /\ result.success
                  /\ [i \in DOMAIN result.output |-> result.output[i].id]
                        = <<"pool_1", "pool_2">>

\* C2: min_apy = 0 with an unknown symbol fails naming both filters
C2_Witness ==
    /\ call.op = "get_lending_pools"
    /\ call.min_apy = NumMinApy(0)
    /\ call.assets = PyList(<<"ZZZ">>)
    /\ ~result.success
    /\ Len(result.output.args) = 2

RECURSIVE SeqSum(_)
SeqSum(s) == IF s = <<>> THEN 0 ELSE s[Len(s)] + SeqSum(SubSeq(s, 1, Len(s) - 1))

RECURSIVE FunSum(_, _)
FunSum(f, S) ==
    IF S = {} THEN 0
    ELSE LET x == CHOOSE y \in S : TRUE IN f[x] + FunSum(f, S \ {x})

\* the stored price of a symbol in 1/10000 USD, 0 when it has none
StoredPrice(symbol) ==
    LET prices == {a.price_usd : a \in {b \in Range(market_data.assets) : b.symbol = symbol}}
    IN  IF prices = {} THEN 0 ELSE CHOOSE x \in prices : TRUE

\* cents is x (in 1/10000 USD) to two decimals
IsCentsOf(cents, x) == 100 * cents - x <= 50 /\ x - 100 * cents <= 50

KnownUserCall(op) ==
    /\ call.op = op
    /\ TruthyStr(call.user_id)
    /\ call.user_id.s \in DOMAIN user_portfolios

\* C3: get_user_portfolio of a known user returns the stored portfolio plus
\* metrics: wallet_value = sum of balance x price, lending_value = sum of
\* deposited x price, borrowing_value = sum of borrowed x price,
\* collateral_value = sum of collateral amount x price over the borrowing
\* positions that carry collateral, net_position = wallet + lending -
\* borrowing, a symbol without a stored price counting 0 (each to two
\* decimals).  For user_123: 1452.00, 580.80, 0.00, 871.20 and 2032.80.
C3_PortfolioMetrics ==
    KnownUserCall("get_user_portfolio") =>
        LET portfolio == user_portfolios[call.user_id.s]
            lending == portfolio.lending_positions
            borrowing == portfolio.borrowing_positions
            wallet_value ==
                FunSum([a \in DOMAIN portfolio.wallet_balance |->
                           portfolio.wallet_balance[a] * StoredPrice(a)],
                       DOMAIN portfolio.wallet_balance)
            lending_value ==
                SeqSum([i \in DOMAIN lending |->
                           lending[i].deposited * StoredPrice(lending[i].asset)])
            borrowing_value ==
                SeqSum([i \in DOMAIN borrowing |->
                           borrowing[i].borrowed * StoredPrice(borrowing[i].asset)])
            collateral_value ==
                SeqSum([i \in DOMAIN borrowing |->
                           IF "collateral" \in DOMAIN borrowing[i]
                              THEN borrowing[i].collateral.amount
                                   * StoredPrice(borrowing[i].collateral.asset)
                              ELSE 0])
        IN  /\ result.success
            /\ DOMAIN result.output = DOMAIN portfolio \cup {"metrics"}
            /\ \A k \in DOMAIN portfolio : result.output[k] = portfolio[k]
            /\ LET m == result.output.metrics
               IN  /\ IsCentsOf(m.total_wallet_value_usd, wallet_value)
                   /\ IsCentsOf(m.total_lending_value_usd, lending_value)
                   /\ IsCentsOf(m.total_borrowing_value_usd, borrowing_value)
                   /\ IsCentsOf(m.total_collateral_value_usd, collateral_value)
                   /\ IsCentsOf(m.net_position_usd,
                                wallet_value + lending_value - borrowing_value)
                   /\ (market_data = InitMarketData /\ user_portfolios = InitUserPortfolios)
                        => /\ m.total_wallet_value_usd = 145200
                           /\ m.total_lending_value_usd = 58080
                           /\ m.total_borrowing_value_usd = 0
                           /\ m.total_collateral_value_usd = 87120
                           /\ m.net_position_usd = 203280

\* C3: user_123's metrics on the constructor's data
C3_Witness ==
    /\ call.op = "get_user_portfolio"
    /\ call.user_id = Str("user_123")
    /\ market_data = InitMarketData
    /\ user_portfolios = InitUserPortfolios
    /\ result.success
    /\ result.output.metrics.total_wallet_value_usd = 145200

\* C4: get_user_portfolio reports an infinite health_factor only for a
\* portfolio without debt: with a borrowing position of borrowed > 0 the
\* health_factor is finite, and it is infinite only when nothing is borrowed.
C4_InfiniteHealthOnlyWithoutDebt ==
    (KnownUserCall("get_user_portfolio") /\ result.success) =>
        LET borrowing == user_portfolios[call.user_id.s].borrowing_positions
            in_debt == \E i \in DOMAIN borrowing : borrowing[i].borrowed > 0
        IN  result.output.metrics.health_factor.inf <=> ~in_debt

\* the classification the specification gives a 0-1 risk metric (hundredths)
IsRiskClass(word, x) ==
    /\ word \in {"low", "moderate", "high"}
    /\ word = "low" <=> x < 30
    /\ word = "moderate" <=> (x >= 30 /\ x < 70)
    /\ word = "high" <=> x >= 70

IsHealthClass(word, x) ==
    /\ word \in {"excellent", "good", "concerning"}
    /\ word = "excellent" <=> x > 80
    /\ word = "good" <=> (x > 50 /\ x <= 80)
    /\ word = "concerning" <=> x <= 50

\* C5: get_risk_assessment without a pool_id succeeds, classifying
\* market_volatility and liquidation_risk as low (< 0.3), moderate (>= 0.3 and
\* < 0.7) or high (>= 0.7) and protocol_health as excellent (> 0.8), good
\* (> 0.5 and <= 0.8) or concerning (<= 0.5), with the same three
\* recommendations whatever the metrics; the stored metrics (0.42, 0.31, 0.89)
\* give moderate, moderate, excellent.
C5_MarketRiskClasses ==
    (call.op = "get_risk_assessment" /\ ~TruthyStr(call.pool_id)) =>
        LET metrics == market_data.risk_metrics
        IN  /\ result.success
            /\ result.output.metrics = metrics
            /\ IsRiskClass(result.output.assessment.market_risk, metrics.market_volatility)
            /\ IsRiskClass(result.output.assessment.liquidation_risk,
                           metrics.liquidation_risk)
            /\ IsHealthClass(result.output.assessment.protocol_health,
                             metrics.protocol_health)
            /\ result.output.recommendations =
                  << "Maintain appropriate collateralization ratios above 150%",
                     "Diversify lending positions across multiple pools",
                     "Consider hedging strategies in high volatility periods" >>
            /\ metrics = [market_volatility |-> 42, liquidation_risk |-> 31,
                          protocol_health |-> 89]
                 => result.output.assessment =
                       [market_risk |-> "moderate", liquidation_risk |-> "moderate",
                        protocol_health |-> "excellent"]

\* C5: a market assessment at the boundary volatility 0.3, which is moderate
C5_Witness ==
    /\ call.op = "get_risk_assessment"
    /\ call.pool_id = NoneStr
    /\ market_data.risk_metrics.market_volatility = 30
    /\ result.success
    /\ result.output.assessment.market_risk = "moderate"

\* C6: get_risk_assessment with a pool_id fails ('Lending pool with ID ... not
\* found') when no stored pool has the id; otherwise it succeeds with
\* utilization_rate classified low (< 60), moderate (>= 60 and < 80) or high
\* (>= 80), collateral_ratio classified high (> 180), moderate (> 140 and
\* <= 180) or low (<= 140), and two recommendations that are the
\* high-utilization pair exactly when utilization_rate > 80.  The stored pool_1
\* (68.3, 150) is moderate/moderate with the normal pair, pool_2 (82.1, 200) is
\* high/high with the high-utilization pair.
C6_PoolRiskClasses ==
    (call.op = "get_risk_assessment" /\ TruthyStr(call.pool_id)) =>
        LET pools == market_data.lending_pools
            hits == {i \in DOMAIN pools : pools[i].id = call.pool_id.s}
        IN  IF hits = {}
               THEN /\ ~result.success
                    /\ result.output.message = "Lending pool with ID not found"
                    /\ result.output.args = <<call.pool_id.s>>
               ELSE /\ result.success
                    /\ result.output.pool \in {pools[i] : i \in hits}
                    /\ LET u == result.output.pool.utilization_rate
                           c == result.output.pool.collateral_ratio
                           ur == result.output.assessment.utilization_risk
                           cs == result.output.assessment.collateral_safety
                       IN  /\ ur \in {"low", "moderate", "high"}
                           /\ ur = "low" <=> u < 600
                           /\ ur = "moderate" <=> (u >= 600 /\ u < 800)
                           /\ ur = "high" <=> u >= 800
                           /\ cs \in {"low", "moderate", "high"}
                           /\ cs = "high" <=> c > 180
                           /\ cs = "moderate" <=> (c > 140 /\ c <= 180)
                           /\ cs = "low" <=> c <= 140
                           /\ result.output.recommendations =
                                 IF u > 800
                                    THEN << "Consider depositing more assets to earn higher yields",
                                            "Maintain higher collateral ratios due to high utilization" >>
                                    ELSE << "This pool has capacity for more deposits",
                                            "Standard collateral ratios are likely sufficient" >>
                           /\ (u = 683 /\ c = 150) =>
                                 /\ ur = "moderate" /\ cs = "moderate"
                                 /\ result.output.recommendations[1] =
                                       "This pool has capacity for more deposits"
                           /\ (u = 821 /\ c = 200) =>
                                 /\ ur = "high" /\ cs = "high"
                                 /\ result.output.recommendations[1] =
                                       "Consider depositing more assets to earn higher yields"

\* C6: a pool at utilization exactly 80: high utilization risk, normal pair
C6_Witness ==
    /\ call.op = "get_risk_assessment"
    /\ call.pool_id = Str("pool_1")
    /\ result.success
    /\ result.output.pool.utilization_rate = 800
    /\ result.output.assessment.utilization_risk = "high"
    /\ result.output.recommendations[1] = "This pool has capacity for more deposits"

IsFailureOnly(r) == ~r.success /\ DOMAIN r.output = {"message", "args"}

\* C7: get_ai_investment_recommendations validates its enums first: a
\* risk_tolerance outside {conservative, moderate, aggressive} fails naming the
\* allowed risk levels; otherwise an investment_horizon outside {short, medium,
\* long} fails naming the allowed horizons; with both invalid the
\* risk_tolerance failure is reported; a failure carries no recommendation
\* payload; with both valid the call succeeds with asset_allocation,
\* strategies and specific_opportunities.
C7_EnumValidation ==
    call.op = "get_ai_investment_recommendations" =>
        LET risk_ok == call.risk_tolerance \in {"conservative", "moderate", "aggressive"}
            horizon_ok == call.investment_horizon \in {"short", "medium", "long"}
        IN  /\ ~risk_ok =>
                 /\ IsFailureOnly(result)
                 /\ result.output.message = "Invalid risk_tolerance. Must be one of"
                 /\ result.output.args = <<"conservative", "moderate", "aggressive">>
            /\ (risk_ok /\ ~horizon_ok) =>
                 /\ IsFailureOnly(result)
                 /\ result.output.message = "Invalid investment_horizon. Must be one of"
                 /\ result.output.args = <<"short", "medium", "long">>
            /\ (risk_ok /\ horizon_ok) =>
                 /\ result.success
                 /\ {"asset_allocation", "strategies", "specific_opportunities"}
                       \subseteq DOMAIN result.output

\* C7: both enums invalid, the risk_tolerance failure is reported
C7_Witness ==
    /\ call.op = "get_ai_investment_recommendations"
    /\ call.risk_tolerance = "reckless"
    /\ call.investment_horizon = "forever"
    /\ ~result.success
    /\ result.output.message = "Invalid risk_tolerance. Must be one of"

ValidRecommendationCall ==
    /\ call.op = "get_ai_investment_recommendations"
    /\ call.risk_tolerance \in {"conservative", "moderate", "aggressive"}
    /\ call.investment_horizon \in {"short", "medium", "long"}

\* C8: with valid enums the result has a portfolio_specific field (rebalancing
\* and risk_management) iff user_id is given and names a stored portfolio; an
\* absent, empty or unknown user_id still succeeds, without portfolio_specific
\* and with the asset_allocation, strategies and specific_opportunities of the
\* call with a known user_id.
C8_PortfolioSpecificIffKnownUser ==
    ValidRecommendationCall =>
        LET known == TruthyStr(call.user_id) /\ call.user_id.s \in DOMAIN user_portfolios
            with_user == get_ai_investment_recommendations(
                            call.risk_tolerance, call.investment_horizon,
                            Str("user_123")).output
        IN  /\ result.success
            /\ "portfolio_specific" \in DOMAIN result.output <=> known
            /\ known => DOMAIN result.output.portfolio_specific
                           = {"rebalancing", "risk_management"}
            /\ "portfolio_specific" \in DOMAIN with_user
            /\ \A k \in {"asset_allocation", "strategies", "specific_opportunities"} :
                  result.output[k] = with_user[k]

\* C8: an unknown user_id: a success without portfolio_specific
C8_Witness ==
    /\ ValidRecommendationCall
    /\ call.user_id = Str("unknown")
    /\ result.success
    /\ "portfolio_specific" \notin DOMAIN result.output

\* C9: get_user_portfolio fails with 'User ID is required' for an empty or
\* missing user_id and with 'No portfolio found for user ID: {user_id}' for a
\* non-empty user_id without a stored portfolio, the emptiness check coming
\* first; neither failure carries a portfolio or metrics; a stored user_id
\* never fails.
C9_PortfolioErrors ==
    call.op = "get_user_portfolio" =>
        LET missing == call.user_id.none \/ call.user_id.s = ""
            stored == ~missing /\ call.user_id.s \in DOMAIN user_portfolios
        IN  /\ missing =>
                 /\ IsFailureOnly(result)
                 /\ result.output = [message |-> "User ID is required", args |-> <<>>]
            /\ (~missing /\ ~stored) =>
                 /\ IsFailureOnly(result)
                 /\ result.output = [message |-> "No portfolio found for user ID",
                                     args |-> <<call.user_id.s>>]
            /\ stored => result.success

\* C9: the empty user_id is refused as missing, not as unknown
C9_Witness ==
    /\ call.op = "get_user_portfolio"
    /\ call.user_id = Str("")
    /\ ~result.success
    /\ result.output.message = "User ID is required"

\* the result of making `c` again in the current state
Replay(c) ==
    CASE c.op = "get_market_data" -> get_market_data(c.assets)
      [] c.op = "get_lending_pools" -> get_lending_pools(c.min_apy, c.assets)
      [] c.op = "get_risk_assessment" -> get_risk_assessment(c.pool_id)
      [] c.op = "get_user_portfolio" -> get_user_portfolio(c.user_id)
      [] c.op = "get_ai_investment_recommendations" ->
            get_ai_investment_recommendations(c.risk_tolerance, c.investment_horizon,
                                              c.user_id)

\* C10: no operation changes the held state: after any sequence of calls,
\* succeeding or failing, market_data and user_portfolios equal the snapshot
\* built at initialization (the stored portfolio gains no metrics field), so
\* the call just made, made again, returns the same output.
C10_StateUnchanged ==
    /\ market_data = InitMarketData
    /\ user_portfolios = InitUserPortfolios
    /\ \A u \in DOMAIN user_portfolios : "metrics" \notin DOMAIN user_portfolios[u]
    /\ call.op # "init" => Replay(call) = result

\* C10: a portfolio returned with metrics while the stored one has none
C10_Witness ==
    /\ call.op = "get_user_portfolio"
    /\ result.success
    /\ "metrics" \in DOMAIN result.output
    /\ "metrics" \notin DOMAIN user_portfolios[call.user_id.s]

\* the str arguments of `assets`, as written
TextEmptyList == <<Tok("[", "", 0), Tok("]", "", 0)>>

TextBtcIota ==
    <<Tok("[", "", 0), Tok("string", "BTC", 0), Tok(",", "", 0),
      Tok("string", "IOTA", 0), Tok("]", "", 0)>>

TextFive == <<Tok("number", "", 5)>>

TextsNotJson == {<<>>, <<Tok("[", "", 0), Tok("string", "IOTA", 0)>>}

HasTextAssets ==
    call.op \in {"get_market_data", "get_lending_pools"} /\ call.assets.t = "str"

\* C11: every call ends in exactly one of a success or a failure result and
\* never raises: an assets string that is not JSON gives the failure 'Invalid
\* JSON format for assets parameter'; one that decodes to a list behaves as
\* that list passed directly; a fault raised inside the computation (`in` or
\* iteration on an assets string decoded to the number 5, float() of a
\* non-numeric min_apy) becomes a failure carrying the cause's message.
C11_AlwaysAResult ==
    call.op # "init" =>
        /\ DOMAIN result = {"success", "output"}
        /\ result.success \in BOOLEAN
        /\ ~result.success => DOMAIN result.output = {"message", "args"}
        /\ (HasTextAssets /\ call.assets.text \in TextsNotJson) =>
              result = [success |-> FALSE,
                        output |-> [message |-> "Invalid JSON format for assets parameter.",
                                    args |-> <<>>]]
        /\ (HasTextAssets /\ call.assets.text = TextEmptyList) =>
              result = Replay([call EXCEPT !.assets = PyList(<<>>)])
        /\ (HasTextAssets /\ call.assets.text = TextBtcIota) =>
              result = Replay([call EXCEPT !.assets = PyList(<<"BTC", "IOTA">>)])
        /\ (call.op = "get_market_data" /\ call.assets = PyStr(TextFive)) =>
              /\ ~result.success
              /\ result.output = [message |-> "Error getting market data",
                                  args |-> <<"argument of type 'int' is not iterable">>]
        /\ (/\ call.op = "get_lending_pools"
            /\ call.min_apy.t = "none"
            /\ call.assets = PyStr(TextFive)) =>
              /\ ~result.success
              /\ result.output = [message |-> "Error getting lending pools",
                                  args |-> <<"'int' object is not iterable">>]
        /\ (/\ call.op = "get_lending_pools"
            /\ call.min_apy.t = "str"
            /\ ~(call.assets.t = "str" /\ call.assets.text \in TextsNotJson)) =>
              /\ ~result.success
              /\ result.output = [message |-> "Error getting lending pools",
                                  args |-> <<"could not convert string to float">>]

\* C11: the assets string '5' in get_market_data: the TypeError as a failure
C11_Witness ==
    /\ call.op = "get_market_data"
    /\ call.assets = PyStr(TextFive)
    /\ ~result.success
    /\ result.output.message = "Error getting market data"

\* the allocation tables of the specification, in percent
ClaimBase(risk_tolerance) ==
    CASE risk_tolerance = "conservative" -> [stablecoins |-> 60, IOTA |-> 30, other_crypto |-> 10]
      [] risk_tolerance = "moderate"     -> [stablecoins |-> 40, IOTA |-> 40, other_crypto |-> 20]
      [] risk_tolerance = "aggressive"   -> [stablecoins |-> 20, IOTA |-> 50, other_crypto |-> 30]

ClaimHorizonDelta(investment_horizon) ==
    CASE investment_horizon = "short"  -> [stablecoins |-> 10, IOTA |-> -5, other_crypto |-> -5]
      [] investment_horizon = "medium" -> [stablecoins |-> 0, IOTA |-> 0, other_crypto |-> 0]
      [] investment_horizon = "long"   -> [stablecoins |-> -10, IOTA |-> 5, other_crypto |-> 5]

Categories == {"stablecoins", "IOTA", "other_crypto"}

\* the integer nearest to num/den (den > 0), the even one of two equally near
Nearest(num, den) ==
    CHOOSE n \in -200..400 :
        LET d == IF n * den >= num THEN n * den - num ELSE num - n * den
        IN  2 * d < den \/ (2 * d = den /\ n % 2 = 0)

\* base + horizon delta + volatility delta (v, -v/2, -v/2 with v = 10 x
\* volatility), rounded to the nearest integer
ClaimRounded(risk_tolerance, investment_horizon, volatility) ==
    [c \in Categories |->
        Nearest(20 * (ClaimBase(risk_tolerance)[c] + ClaimHorizonDelta(investment_horizon)[c])
                + (IF c = "stablecoins" THEN 2 * volatility ELSE -volatility), 20)]

ClaimClamped(risk_tolerance, investment_horizon, volatility) ==
    [c \in Categories |->
        LET x == ClaimRounded(risk_tolerance, investment_horizon, volatility)[c]
        IN  IF x < 0 THEN 0 ELSE IF x > 100 THEN 100 ELSE x]

Total(alloc) == alloc["stablecoins"] + alloc["IOTA"] + alloc["other_crypto"]

\* C12: the asset allocation is three integer percentages (stablecoins, IOTA,
\* other_crypto), each in [0,100], that sum to exactly 100, for every
\* risk_tolerance, investment_horizon and market_volatility in [0,1]; when the
\* rounded and clamped values do not sum to 100 they are rescaled by 100/sum
\* and rounded, and the residual is added to the category with the largest
\* share.
C12_AllocationTotals100 ==
    ValidRecommendationCall =>
        LET alloc == result.output.asset_allocation
            clamped == ClaimClamped(call.risk_tolerance, call.investment_horizon,
                                    market_data.risk_metrics.market_volatility)
            scaled == [c \in Categories |-> Nearest(100 * clamped[c], Total(clamped))]
            residual == 100 - Total(scaled)
        IN  /\ result.success
            /\ DOMAIN alloc = Categories
            /\ \A c \in Categories : alloc[c] \in 0..100
            /\ Total(alloc) = 100
            /\ IF Total(clamped) = 100
                  THEN alloc = clamped
                  ELSE \E big \in Categories :
                          /\ \A c \in Categories : scaled[c] <= scaled[big]
                          /\ alloc = [scaled EXCEPT ![big] = @ + residual]

\* C12: an allocation whose rounded values missed 100 and whose rescaled
\* values left a residual
C12_Witness ==
    /\ ValidRecommendationCall
    /\ result.success
    /\ LET clamped == ClaimClamped(call.risk_tolerance, call.investment_horizon,
                                   market_data.risk_metrics.market_volatility)
       IN  /\ Total(clamped) # 100
           /\ Total([c \in Categories |-> Nearest(100 * clamped[c], Total(clamped))]) # 100
    /\ Total(result.output.asset_allocation) = 100

\* C13: at the stored volatility 0.42 the allocation of each of the nine
\* (risk_tolerance, investment_horizon) pairs is base + horizon delta +
\* volatility delta (+4.2, -2.1, -2.1), each value rounded to the nearest
\* integer; the rounded values already sum to 100, so nothing is rescaled;
\* conservative/medium gives stablecoins 64, IOTA 28, other_crypto 8.
C13_AllocationAtStoredVolatility ==
    (ValidRecommendationCall /\ market_data.risk_metrics.market_volatility = 42) =>
        LET rounded == [c \in Categories |->
                Nearest(10 * (ClaimBase(call.risk_tolerance)[c]
                              + ClaimHorizonDelta(call.investment_horizon)[c])
                        + (IF c = "stablecoins" THEN 42 ELSE -21), 10)]
        IN  /\ result.success
            /\ Total(rounded) = 100
            /\ result.output.asset_allocation = rounded
            /\ (call.risk_tolerance = "conservative" /\ call.investment_horizon = "medium")
                  => result.output.asset_allocation
                        = [stablecoins |-> 64, IOTA |-> 28, other_crypto |-> 8]

\* C13: conservative/medium at volatility 0.42
C13_Witness ==
    /\ ValidRecommendationCall
    /\ market_data.risk_metrics.market_volatility = 42
    /\ call.risk_tolerance = "conservative"
    /\ call.investment_horizon = "medium"
    /\ result.success
    /\ result.output.asset_allocation.stablecoins = 64

\* the sequence of one field of a sequence of records
FieldOf(records, field) == [i \in DOMAIN records |-> records[i][field]]

Optional(condition, entry) == IF condition THEN <<entry>> ELSE <<>>

\* C14: for every valid (risk_tolerance, investment_horizon) the opportunities
\* are, in this order, the lending opportunity of pool_1 (risk_level Low)
\* always, the lending opportunity of pool_2 (risk_level Medium-High) exactly
\* when risk_tolerance is moderate or aggressive, IOTA Staking exactly when
\* risk_tolerance is not conservative, and IOTA-BTC LP Farming exactly when
\* risk_tolerance is aggressive and investment_horizon is not short; so
\* aggressive/short has no farming opportunity and aggressive/medium has it.
C14_Opportunities ==
    ValidRecommendationCall =>
        LET opportunities == result.output.specific_opportunities
            second == call.risk_tolerance \in {"moderate", "aggressive"}
            staking == call.risk_tolerance # "conservative"
            farming == call.risk_tolerance = "aggressive" /\ call.investment_horizon # "short"
            Has(name) == \E i \in DOMAIN opportunities : opportunities[i].name = name
        IN  /\ result.success
            /\ FieldOf(opportunities, "name")
                  = <<<<"IOTA Stable Pool", " Deposit">>>>
                    \o Optional(second, <<"IOTA High Yield", " Deposit">>)
                    \o Optional(staking, <<"IOTA Staking">>)
                    \o Optional(farming, <<"IOTA-BTC LP Farming">>)
            /\ FieldOf(opportunities, "type")
                  = <<"lending">> \o Optional(second, "lending")
                    \o Optional(staking, "staking") \o Optional(farming, "yield_farming")
            /\ FieldOf(opportunities, "risk_level")
                  = <<"Low">> \o Optional(second, "Medium-High")
                    \o Optional(staking, "Medium") \o Optional(farming, "High")
            /\ (call.risk_tolerance = "aggressive" /\ call.investment_horizon = "short")
                  => ~Has(<<"IOTA-BTC LP Farming">>)
            /\ (call.risk_tolerance = "aggressive" /\ call.investment_horizon = "medium")
                  => Has(<<"IOTA-BTC LP Farming">>)

\* C14: aggressive/short, with both lending opportunities and staking but no
\* farming
C14_Witness ==
    /\ ValidRecommendationCall
    /\ call.risk_tolerance = "aggressive"
    /\ call.investment_horizon = "short"
    /\ result.success
    /\ Len(result.output.specific_opportunities) = 3
    /\ result.output.specific_opportunities[3].type = "staking"

\* C15: for every valid risk_tolerance, investment_horizon and
\* market_volatility in [0,1] the first strategy is Diversification; the list
\* contains Stable Yield Farming iff conservative, Dollar-Cost Averaging iff
\* conservative and the horizon is medium or long, Balanced Approach and
\* Strategic Rebalancing iff moderate, Growth Focus iff aggressive, Strategic
\* Leverage iff aggressive and market_volatility < 0.7, and Volatility Hedging,
\* as the last entry, iff market_volatility > 0.6; at volatility 0.42 no list
\* has Volatility Hedging and every aggressive list has Strategic Leverage.
C15_Strategies ==
    ValidRecommendationCall =>
        LET names == FieldOf(result.output.strategies, "name")
            volatility == market_data.risk_metrics.market_volatility
            Has(name) == \E i \in DOMAIN names : names[i] = name
            conservative == call.risk_tolerance = "conservative"
            moderate == call.risk_tolerance = "moderate"
            aggressive == call.risk_tolerance = "aggressive"
        IN  /\ result.success
            /\ Len(names) >= 1
            /\ names[1] = "Diversification"
            /\ Has("Stable Yield Farming") <=> conservative
            /\ Has("Dollar-Cost Averaging")
                  <=> (conservative /\ call.investment_horizon \in {"medium", "long"})
            /\ Has("Balanced Approach") <=> moderate
            /\ Has("Strategic Rebalancing") <=> moderate
            /\ Has("Growth Focus") <=> aggressive
            /\ Has("Strategic Leverage") <=> (aggressive /\ volatility < 70)
            /\ Has("Volatility Hedging") <=> volatility > 60
            /\ \A i \in DOMAIN names : names[i] = "Volatility Hedging" => i = Len(names)
            /\ volatility = 42 =>
                  /\ ~Has("Volatility Hedging")
                  /\ aggressive => Has("Strategic Leverage")

\* C15: an aggressive call between the two volatility thresholds, with
\* Strategic Leverage and Volatility Hedging last
C15_Witness ==
    /\ ValidRecommendationCall
    /\ call.risk_tolerance = "aggressive"
    /\ market_data.risk_metrics.market_volatility = 65
    /\ result.success
    /\ FieldOf(result.output.strategies, "name")
          = <<"Diversification", "Growth Focus", "Strategic Leverage", "Volatility Hedging">>

\* a valid recommendation call whose user_id names a stored portfolio
LoadedRecommendationCall ==
    /\ ValidRecommendationCall
    /\ PortfolioLoaded(call.user_id)

StoredPortfolioWorld == user_portfolios = InitUserPortfolios

\* C16: for a loaded portfolio the risk-management recommendations are, in
\* order, one High 'Increase collateral' entry per borrowing position whose
\* collateral ratio is < 180 (in position order, naming the borrowed asset of
\* the position), then one Medium stop-loss entry exactly when
\* market_volatility > 0.4, then always one Low 'Review lending pool
\* utilization' entry, the last; current_health is 'Good' iff
\* market_volatility < 0.5.  For user_123 at volatility 0.42 the list is High
\* (USDT, ratio 175), Medium, Low and current_health is Good.
C16_RiskManagementAdvice ==
    LoadedRecommendationCall =>
        LET advice == result.output.portfolio_specific.risk_management
            recs == advice.recommendations
            volatility == market_data.risk_metrics.market_volatility
            positions == user_portfolios[call.user_id.s].borrowing_positions
            low == {i \in DOMAIN positions :
                        /\ "collateral" \in DOMAIN positions[i]
                        /\ positions[i].collateral.ratio < 180}
            rank(i) == Cardinality({j \in low : j <= i})
            high == Cardinality(low)
            medium == IF volatility > 40 THEN 1 ELSE 0
        IN  /\ result.success
            /\ Len(recs) = high + medium + 1
            /\ \A i \in low :
                  /\ recs[rank(i)].priority = "High"
                  /\ recs[rank(i)].action = "Increase collateral"
                  /\ recs[rank(i)].description
                        = <<"Add more collateral to your ", positions[i].asset,
                            " borrowing position to reduce liquidation risk">>
            /\ medium = 1 =>
                  /\ recs[high + 1].priority = "Medium"
                  /\ recs[high + 1].action = "Set up stop-loss strategies"
            /\ recs[Len(recs)].priority = "Low"
            /\ recs[Len(recs)].action = "Review lending pool utilization"
            /\ advice.current_health \in {"Good", "Requires Attention"}
            /\ advice.current_health = "Good" <=> volatility < 50
            /\ (StoredPortfolioWorld /\ volatility = 42) =>
                  /\ FieldOf(recs, "priority") = <<"High", "Medium", "Low">>
                  /\ recs[1].description[2] = "USDT"
                  /\ positions[1].collateral.ratio = 175
                  /\ advice.current_health = "Good"

\* C16: three borrowing positions with ratios 179, 180 and 150 at volatility
\* 0.40: two High entries in position order and the Low entry, no Medium one
C16_Witness ==
    /\ LoadedRecommendationCall
    /\ result.success
    /\ market_data.risk_metrics.market_volatility = 40
    /\ LET recs == result.output.portfolio_specific.risk_management.recommendations
       IN  /\ FieldOf(recs, "priority") = <<"High", "High", "Low">>
           /\ recs[1].description[2] = "BTC"
           /\ recs[2].description[2] = "USDT"

\* C17: for a loaded portfolio the rebalancing actions contain 'Reduce IOTA
\* exposure' exactly when the wallet holds IOTA > 5000 and risk_tolerance is
\* conservative, and 'Diversify lending positions' exactly when the portfolio
\* has fewer than 2 lending positions; the two tests are independent, the
\* reduce action comes first when both fire, and the list is empty when
\* neither fires.  For user_123 (IOTA 10000, one lending position)
\* conservative gives both actions, moderate and aggressive only the
\* diversify action.
C17_RebalancingAdvice ==
    LoadedRecommendationCall =>
        LET actions == FieldOf(result.output.portfolio_specific.rebalancing.actions, "action")
            portfolio == user_portfolios[call.user_id.s]
            reduce == /\ "IOTA" \in DOMAIN portfolio.wallet_balance
                      /\ portfolio.wallet_balance["IOTA"] > 5000
                      /\ call.risk_tolerance = "conservative"
            diversify == Len(portfolio.lending_positions) < 2
        IN  /\ result.success
            /\ actions = Optional(reduce, "Reduce IOTA exposure")
                         \o Optional(diversify, "Diversify lending positions")
            /\ StoredPortfolioWorld =>
                  /\ portfolio.wallet_balance["IOTA"] = 10000
                  /\ Len(portfolio.lending_positions) = 1
                  /\ actions = IF call.risk_tolerance = "conservative"
                                  THEN <<"Reduce IOTA exposure", "Diversify lending positions">>
                                  ELSE <<"Diversify lending positions">>

\* C17: a conservative call on a wallet of 5001 IOTA without lending positions:
\* both actions, the reduce action first
C17_Witness ==
    /\ LoadedRecommendationCall
    /\ result.success
    /\ "IOTA" \in DOMAIN user_portfolios[call.user_id.s].wallet_balance
    /\ user_portfolios[call.user_id.s].wallet_balance["IOTA"] = 5001
    /\ user_portfolios[call.user_id.s].lending_positions = <<>>
    /\ FieldOf(result.output.portfolio_specific.rebalancing.actions, "action")
          = <<"Reduce IOTA exposure", "Diversify lending positions">>
====
